---- MODULE Spec2Model ----
(***************************************************************************)
(* A model of pdf-speak-out: the caption generator (captionGenerator.ts,   *)
(* src/unnamed/part_000) and the caption renderer of the video player      *)
(* (VideoPlayerWithCaptions.tsx, src/unnamed/part_004).                     *)
(*                                                                         *)
(* Strings are sequences of one-character strings.                         *)
(*                                                                         *)
(* Times are JavaScript numbers (IEEE-754 binary64).  The model counts a   *)
(* time in whole steps of the number grid: the integer n stands for the    *)
(* double n * 2^-1074 (n * Number.MIN_VALUE).  On that range binary64 is a *)
(* fixed-point format, so an integer times a time is computed without      *)
(* error and a division rounds its quotient to the nearest grid point,     *)
(* ties to even (FDiv).  When the divisor divides the dividend no          *)
(* operation rounds, and the model is then the exact computation in any    *)
(* unit.                                                                   *)
(***************************************************************************)
EXTENDS Integers, Sequences, FiniteSets, TLC

\* ---------------------------------------------------------------- bounds
MaxLen == 4         \* every text of at most MaxLen characters is an input
MaxWords == 5       \* longer texts: 1..MaxWords words with a fixed separator
MaxDur == 6         \* totalDuration ranges over -1..MaxDur
MaxK == 3           \* wordsPerSegment ranges over -1..MaxK
MaxSegments == 7    \* cap on loop iterations of a run that never ends
MaxRate == 12       \* wordsPerMinute ranges over 1..MaxRate and the default
MaxChunkText == 5   \* splitTextIntoChunks: texts of at most MaxChunkText characters
MaxChunk == 4       \* maxChunkLength ranges over 1..MaxChunk
MaxCalls == 2       \* getInstance calls, and getVoices calls, in one run
MaxEvents == 2      \* voiceschanged events in one run
MaxUploads == 2     \* handleFileUpload invocations in one run

\* ------------------------------------------------------------ characters
SP == " "
TAB == "\t"
NL == "\n"
Letters == {"a", "b"}
Whitespace == {SP, TAB, NL}

\* /\s/ : the characters the regular expression class \s matches
IsSpace(c) == c \in Whitespace

\* ------------------------------------------------------- string helpers
Min(a, b) == IF a <= b THEN a ELSE b
Max(a, b) == IF a >= b THEN a ELSE b

RECURSIVE DropLeadingSpace(_)
DropLeadingSpace(s) ==
  IF s # <<>> /\ IsSpace(Head(s)) THEN DropLeadingSpace(Tail(s)) ELSE s

RECURSIVE DropTrailingSpace(_)
DropTrailingSpace(s) ==
  IF s # <<>> /\ IsSpace(s[Len(s)])
  THEN DropTrailingSpace(SubSeq(s, 1, Len(s) - 1))
  ELSE s

\* String.prototype.replace(/\s+/g, ' '): every maximal whitespace run
\* becomes one space
RECURSIVE DropLeadingLiteralSpace(_)
DropLeadingLiteralSpace(s) ==
  IF s # <<>> /\ Head(s) = SP THEN DropLeadingLiteralSpace(Tail(s)) ELSE s

RECURSIVE ReplaceWsLiteralSpaceOnly(_)
ReplaceWsLiteralSpaceOnly(s) ==
  IF s = <<>> THEN <<>>
  ELSE IF Head(s) = SP
       THEN <<SP>> \o ReplaceWsLiteralSpaceOnly(DropLeadingLiteralSpace(Tail(s)))
       ELSE <<Head(s)>> \o ReplaceWsLiteralSpaceOnly(Tail(s))

RECURSIVE ReplaceWs(_)
ReplaceWs(s) ==
  IF s = <<>> THEN <<>>
  ELSE IF IsSpace(Head(s))
       THEN <<SP>> \o ReplaceWs(DropLeadingSpace(Tail(s)))
       ELSE <<Head(s)>> \o ReplaceWs(Tail(s))

\* String.prototype.trim()
Trim(s) == DropTrailingSpace(DropLeadingSpace(s))

\* String.prototype.split(' '): the pieces between literal spaces, empty
\* pieces kept ("" splits into [""]).  The pieces of a string are those of
\* its two halves, the last piece of the first half and the first piece of
\* the second being one piece.
RECURSIVE SplitSpace(_)
SplitSpace(s) ==
  IF Len(s) = 0 THEN <<s>>
  ELSE IF Len(s) = 1 THEN (IF s[1] = SP THEN <<<<>>, <<>>>> ELSE <<s>>)
  ELSE LET m == Len(s) \div 2
           l == SplitSpace(SubSeq(s, 1, m))
           r == SplitSpace(SubSeq(s, m + 1, Len(s)))
       IN SubSeq(l, 1, Len(l) - 1) \o <<l[Len(l)] \o r[1]>> \o Tail(r)

\* Array.prototype.filter(word => word.length > 0)
FilterKeepsAll(ws) == ws

FilterNonEmpty(ws) == SelectSeq(ws, LAMBDA w : Len(w) > 0)

\* Array.prototype.filter(word => word.trim().length > 0)
FilterNonBlank(ws) == SelectSeq(ws, LAMBDA w : Len(Trim(w)) > 0)

\* Array.prototype.slice(from, to), 0-based, negative indices counted from
\* the end
SliceIndex(n, len) == IF n < 0 THEN Max(len + n, 0) ELSE Min(n, len)

Slice(s, from, to) ==
  SubSeq(s, SliceIndex(from, Len(s)) + 1, SliceIndex(to, Len(s)))

\* Array.prototype.join(' ')
RECURSIVE JoinSpace(_)
JoinSpace(ws) ==
  IF ws = <<>> THEN <<>>
  ELSE IF Len(ws) = 1 THEN Head(ws)
       ELSE Head(ws) \o <<SP>> \o JoinSpace(Tail(ws))

\* ------------------------------------------------------------ arithmetic
\* a / b on doubles.  b = 0 gives NaN or an infinity; otherwise the
\* quotient rounded to the nearest grid point, ties to even.
FDiv(a, b) ==
  IF b = 0
  THEN (IF a = 0 THEN "NaN" ELSE IF a > 0 THEN "Infinity" ELSE "-Infinity")
  ELSE LET q == a \div b
           r == a % b
       IN IF 2 * r < b THEN q
          ELSE IF 2 * r > b THEN q + 1
          ELSE IF q % 2 = 0 THEN q ELSE q + 1

\* exact fractions, for numbers that are not times on the grid: n / d, d > 0,
\* in lowest terms
RECURSIVE Gcd(_, _)
Gcd(a, b) == IF b = 0 THEN a ELSE Gcd(b, a % b)

Rat(n, d) ==
  LET g == Gcd(IF n < 0 THEN 0 - n ELSE n, d)
  IN [num |-> n \div g, den |-> d \div g]

RatMul(x, n) == Rat(x.num * n, x.den)
RatLeq(x, y) == x.num * y.den <= y.num * x.den
\* Math.max
RatMax(x, y) == IF RatLeq(y, x) THEN x ELSE y

\* ------------------------------------------------------ program constants
DefaultWordsPerMinute == 150   \* estimateAudioDuration: wordsPerMinute = 150
SecondsPerMinute == 60         \* minutes * 60
MinimumDuration == 10          \* Math.max(..., 10)
SyncThreshold == 2             \* 0.5 s, in the player's quarter seconds
Placeholder == <<"Captions will appear here...">>
WordsPerCaption == 6           \* generateCaptions(text, estimatedDuration, 6)

\* ---------------------------------------------------------------- state
VARIABLES
  text,             \* generateCaptions / estimateAudioDuration: text
  totalDuration,    \* generateCaptions: totalDuration
  wordsPerSegment,  \* generateCaptions: wordsPerSegment
  pc,               \* position of the generateCaptions call
  words,            \* const words
  totalWords,       \* const totalWords
  timePerWord,      \* const timePerWord
  i,                \* the loop variable
  segments,         \* const segments; the return value once pc = "done"
  wordsPerMinute,   \* estimateAudioDuration: wordsPerMinute
  estPc,            \* position of the estimateAudioDuration call
  estimate,         \* estimateAudioDuration's return value once estPc = "done"
  captions,         \* VideoPlayerWithCaptions: the captions prop
  audioTime,        \* audio.currentTime
  videoTime,        \* video.currentTime
  currentTime,      \* useState: currentTime
  currentCaption,   \* useState: currentCaption
  isPlaying,        \* VideoPlayerWithCaptions: useState isPlaying
  audioPlaying,     \* the audio element is playing (not paused, not ended)
  videoPlaying,     \* the background video element is playing
  lastEvent,        \* the handler that ran last in the player
  chunkText,        \* splitTextIntoChunks: text
  maxChunkLength,   \* splitTextIntoChunks: maxChunkLength
  chunkPc,          \* position of the splitTextIntoChunks call
  chunks,           \* splitTextIntoChunks's return value once chunkPc = "done"
  instance,         \* TextToSpeechService.instance; 0 is undefined
  constructions,    \* how many times the constructor has run
  returnedInstances,\* what the getInstance calls have returned
  browserVoices,    \* what speechSynthesis.getVoices() returns now
  voices,           \* this.voices
  isVoicesLoaded,   \* this.isVoicesLoaded
  onvoiceschanged,  \* speechSynthesis.onvoiceschanged: the load whose
                    \* handler is registered; 0 is none
  timers,           \* the loads whose fallback timeout is pending
  loads,            \* how many loadVoices calls have started
  resolved,         \* the loadVoices calls whose promise is resolved
  assignments,      \* how many times this.voices has been assigned
  calls,            \* the getVoices calls: where each one stands
  events,           \* how many voiceschanged events have fired
  isProcessing,     \* PDFToSpeechApp: useState isProcessing
  videoData,        \* PDFToSpeechApp: useState videoData; <<>> is null
  toasts,           \* the notifications shown, in order
  uploads           \* the handleFileUpload invocations: where each stands

captionVars == <<text, totalDuration, wordsPerSegment, pc, words, totalWords,
                 timePerWord, i, segments>>
estimateVars == <<wordsPerMinute, estPc, estimate>>
playerVars == <<captions, audioTime, videoTime, currentTime, currentCaption>>
playbackVars == <<isPlaying, audioPlaying, videoPlaying, lastEvent>>
chunkVars == <<chunkText, maxChunkLength, chunkPc, chunks>>
ttsVars == <<instance, constructions, returnedInstances, browserVoices, voices,
             isVoicesLoaded, onvoiceschanged, timers, loads, resolved,
             assignments, calls, events>>
appVars == <<isProcessing, videoData, toasts, uploads>>
restVars == <<chunkVars, ttsVars, appVars>>
vars == <<captionVars, estimateVars, playerVars, playbackVars, restVars>>

\* ------------------------------------------------------- generateCaptions
\* lines 20-24: the words of the text
Tokenize(t) == FilterNonEmpty(SplitSpace(Trim(ReplaceWs(t))))

\* lines 36-44: the segment the loop body pushes at word index idx
SegmentAtSliceFromZero(ws, idx, tpw, dur, k) ==
  LET segmentWords == Slice(ws, idx, k)
  IN [start |-> idx * tpw,
      end   |-> Min((idx + Len(segmentWords)) * tpw, dur),
      text  |-> JoinSpace(segmentWords)]

SegmentAtUnclamped(ws, idx, tpw, dur, k) ==
  LET segmentWords == Slice(ws, idx, idx + k)
  IN [start |-> idx * tpw,
      end   |-> (idx + Len(segmentWords)) * tpw,
      text  |-> JoinSpace(segmentWords)]

SegmentAtEndAtLastWord(ws, idx, tpw, dur, k) ==
  LET segmentWords == Slice(ws, idx, idx + k)
  IN [start |-> idx * tpw,
      end   |-> Min((idx + Len(segmentWords) - 1) * tpw, dur),
      text  |-> JoinSpace(segmentWords)]

SegmentAtFullWindowEnd(ws, idx, tpw, dur, k) ==
  LET segmentWords == Slice(ws, idx, idx + k)
  IN [start |-> idx * tpw,
      end   |-> Min((idx + k) * tpw, dur),
      text  |-> JoinSpace(segmentWords)]

SegmentAt(ws, idx, tpw, dur, k) ==
  LET segmentWords == Slice(ws, idx, idx + k)
  IN [start |-> idx * tpw,
      end   |-> Min((idx + Len(segmentWords)) * tpw, dur),
      text  |-> JoinSpace(segmentWords)]

\* lines 20-26: split the text; no words: return []
EnterGenerateCaptions ==
  /\ pc = "start"
  /\ LET tokens == Tokenize(text)
     IN /\ words' = tokens
        /\ pc' = IF Len(tokens) = 0 THEN "done" ELSE "divide"
  /\ segments' = <<>>
  /\ UNCHANGED <<text, totalDuration, wordsPerSegment, totalWords,
                 timePerWord, i, estimateVars, playerVars,
                 playbackVars, restVars>>

\* lines 28-35: totalWords, timePerWord, let i = 0
ComputeTimePerWord ==
  /\ pc = "divide"
  /\ totalWords' = Len(words)
  /\ timePerWord' = FDiv(totalDuration, Len(words))
  /\ i' = 0
  /\ pc' = "loop"
  /\ UNCHANGED <<text, totalDuration, wordsPerSegment, words, segments,
                 estimateVars, playerVars,
                 playbackVars, restVars>>

\* lines 35-45: one iteration of the loop
LoopStep ==
  /\ pc = "loop"
  /\ i < Len(words)
  /\ Len(segments) < MaxSegments
  /\ segments' = Append(segments,
                        SegmentAt(words, i, timePerWord, totalDuration,
                                  wordsPerSegment))
  /\ i' = i + wordsPerSegment
  /\ UNCHANGED <<text, totalDuration, wordsPerSegment, pc, words,
                 totalWords, timePerWord, estimateVars, playerVars,
                 playbackVars, restVars>>

\* lines 35, 47: the loop condition fails; return segments
LoopExit ==
  /\ pc = "loop"
  /\ ~(i < Len(words))
  /\ pc' = "done"
  /\ UNCHANGED <<text, totalDuration, wordsPerSegment, words, totalWords,
                 timePerWord, i, segments, estimateVars, playerVars,
                 playbackVars, restVars>>

\* the loop of lines 35-45 run to its end, for wordsPerSegment >= 1
RECURSIVE CaptionLoop(_, _, _, _, _, _)
CaptionLoop(ws, idx, tpw, dur, k, segs) ==
  IF idx < Len(ws)
  THEN CaptionLoop(ws, idx + k, tpw, dur, k,
                   Append(segs, SegmentAt(ws, idx, tpw, dur, k)))
  ELSE segs

\* generateCaptions as a function of its arguments, for wordsPerSegment >= 1
GenerateCaptions(t, dur, k) ==
  LET ws == Tokenize(t)
  IN IF Len(ws) = 0 THEN <<>>
     ELSE CaptionLoop(ws, 0, FDiv(dur, Len(ws)), dur, k, <<>>)

\* -------------------------------------------------- estimateAudioDuration
\* line 57: the tokens between literal spaces that are not blank
EstimateWords(t) == FilterNonBlank(SplitSpace(t))

\* lines 57-59, in seconds
EstimateAudioDurationNoFloor(t, wpm) ==
  RatMul(Rat(Len(EstimateWords(t)), wpm), SecondsPerMinute)

EstimateAudioDurationOf(t, wpm) ==
  LET minutes == Rat(Len(EstimateWords(t)), wpm)
  IN RatMax(RatMul(minutes, SecondsPerMinute), Rat(MinimumDuration, 1))

EstimateAudioDuration ==
  /\ estPc = "start"
  /\ estimate' = EstimateAudioDurationOf(text, wordsPerMinute)
  /\ estPc' = "done"
  /\ UNCHANGED <<captionVars, wordsPerMinute, playerVars, playbackVars,
                 restVars>>

\* ------------------------------------------------ VideoPlayerWithCaptions
\* Player times are counted in quarter seconds, all of them doubles.
\* line 50: captions.find(cap => time >= cap.start && time <= cap.end);
\* <<>> stands for undefined, <<cap>> for the segment found
RECURSIVE FindLastCaption(_, _)
FindLastCaption(caps, time) ==
  IF caps = <<>> THEN <<>>
  ELSE LET cap == caps[Len(caps)]
       IN IF time >= cap.start /\ time <= cap.end THEN <<cap>>
          ELSE FindLastCaption(SubSeq(caps, 1, Len(caps) - 1), time)

RECURSIVE FindCaption(_, _)
FindCaption(caps, time) ==
  IF caps = <<>> THEN <<>>
  ELSE IF time >= Head(caps).start /\ time <= Head(caps).end
       THEN <<Head(caps)>>
       ELSE FindCaption(Tail(caps), time)

Abs(x) == IF x < 0 THEN 0 - x ELSE x

\* lines 134-136: {currentCaption || 'Captions will appear here...'}
Displayed == IF currentCaption = <<>> THEN Placeholder ELSE currentCaption

\* ---------------------------------------------------------------- inputs
Alphabet == Letters \cup {SP, TAB}

RECURSIVE SeqsUpTo(_, _)
SeqsUpTo(S, n) ==
  IF n = 0 THEN {<<>>}
  ELSE LET shorter == SeqsUpTo(S, n - 1)
       IN shorter \cup {Append(s, c) : s \in {t \in shorter : Len(t) = n - 1}, c \in S}

ShortTexts == SeqsUpTo(Alphabet, MaxLen)

WordNo(n) == IF n % 2 = 1 THEN <<"a">> ELSE <<"b", "a">>

RECURSIVE WordsJoined(_, _)
WordsJoined(n, sep) ==
  IF n = 1 THEN WordNo(1) ELSE WordsJoined(n - 1, sep) \o sep \o WordNo(n)

Separators == {<<SP>>, <<NL>>, <<SP, TAB>>}

LongTexts == {WordsJoined(n, sep) : n \in 1..MaxWords, sep \in Separators}

Texts == ShortTexts \cup LongTexts
Durations == -1..MaxDur
SegmentSizes == -1..MaxK

\* the examples of the documentation: three words, three hundred words
ThreeWords == WordsJoined(3, <<SP>>)
ThreeHundredWords == [p \in 1..599 |-> IF p % 2 = 1 THEN "a" ELSE SP]
Rates == {DefaultWordsPerMinute} \cup 1..MaxRate

\* caption lists the application can hand to the player: what
\* generateCaptions returns when nothing rounds
PlayerCaptions ==
  {GenerateCaptions(c[1], c[2], c[3]) :
     c \in {x \in LongTexts \X (1..MaxDur) \X (1..MaxK) :
              x[2] % Len(Tokenize(x[1])) = 0}}
Times == 0..(MaxDur + 2)

\* the timeupdate listener, lines 40-52, run at audio.currentTime = t
UpdateTime ==
  \E t \in Times :
    /\ audioTime' = t
    /\ currentTime' = t
    /\ videoTime' = IF Abs(videoTime - t) > SyncThreshold THEN t ELSE videoTime
    /\ LET caption == FindCaption(captions, t)
       IN currentCaption' = IF caption # <<>> THEN caption[1].text ELSE <<>>
    /\ UNCHANGED <<captionVars, estimateVars, captions, playbackVars,
                   restVars>>

\* the looping background video plays on its own clock
VideoPlays ==
  \E t \in Times :
    /\ videoTime' = t
    /\ UNCHANGED <<captionVars, estimateVars, captions, audioTime,
                   currentTime, currentCaption, playbackVars, restVars>>

\* lines 71-85: a click on the play/pause button
TogglePlayPause ==
  /\ IF isPlaying
     THEN videoPlaying' = FALSE /\ audioPlaying' = FALSE
     ELSE videoPlaying' = TRUE /\ audioPlaying' = TRUE
  /\ isPlaying' = ~isPlaying
  /\ lastEvent' = "toggle"
  /\ UNCHANGED <<captionVars, estimateVars, playerVars, restVars>>

\* lines 55-58, without video.pause()
HandleEndedVideoRuns ==
  /\ audioPlaying
  /\ audioPlaying' = FALSE
  /\ isPlaying' = FALSE
  /\ lastEvent' = "ended"
  /\ UNCHANGED <<videoPlaying, captionVars, estimateVars, playerVars,
                 restVars>>

\* lines 55-58: the audio plays to its end and fires 'ended'
HandleEnded ==
  /\ audioPlaying
  /\ audioPlaying' = FALSE
  /\ isPlaying' = FALSE
  /\ videoPlaying' = FALSE
  /\ lastEvent' = "ended"
  /\ UNCHANGED <<captionVars, estimateVars, playerVars, restVars>>

\* --------------------------------------------------------- specifications
CaptionsIdle ==
  /\ text = <<>> /\ totalDuration = 0 /\ wordsPerSegment = 1 /\ pc = "idle"
  /\ words = <<>> /\ totalWords = 0 /\ timePerWord = 0 /\ i = 0
  /\ segments = <<>>

EstimateIdle ==
  /\ wordsPerMinute = DefaultWordsPerMinute /\ estPc = "idle"
  /\ estimate = Rat(0, 1)

PlaybackIdle ==
  /\ isPlaying = FALSE /\ audioPlaying = FALSE /\ videoPlaying = FALSE
  /\ lastEvent = "none"

PlayerIdle ==
  /\ captions = <<>> /\ audioTime = 0 /\ videoTime = 0 /\ currentTime = 0
  /\ currentCaption = <<>>
  /\ PlaybackIdle

ChunksIdle ==
  /\ chunkText = <<>> /\ maxChunkLength = 1 /\ chunkPc = "idle"
  /\ chunks = <<>>

TtsIdle ==
  /\ instance = 0 /\ constructions = 0 /\ returnedInstances = <<>>
  /\ browserVoices = <<>> /\ voices = <<>> /\ isVoicesLoaded = FALSE
  /\ onvoiceschanged = 0 /\ timers = {} /\ loads = 0 /\ resolved = {}
  /\ assignments = 0 /\ calls = <<>> /\ events = 0

AppIdle ==
  /\ isProcessing = FALSE /\ videoData = <<>> /\ toasts = <<>>
  /\ uploads = <<>>

RestIdle == ChunksIdle /\ TtsIdle /\ AppIdle

\* one call of generateCaptions
Init ==
  /\ text \in Texts
  /\ totalDuration \in Durations
  /\ wordsPerSegment \in SegmentSizes
  /\ pc = "start"
  /\ words = <<>>
  /\ totalWords = 0
  /\ timePerWord = 0
  /\ i = 0
  /\ segments = <<>>
  /\ EstimateIdle
  /\ PlayerIdle
  /\ RestIdle

Next ==
  \/ EnterGenerateCaptions
  \/ ComputeTimePerWord
  \/ LoopStep
  \/ LoopExit

Spec == Init /\ [][Next]_vars

\* one call of estimateAudioDuration
InitEstimate ==
  /\ text \in Texts \cup {ThreeHundredWords}
  /\ totalDuration = 0 /\ wordsPerSegment = 1 /\ pc = "idle"
  /\ words = <<>> /\ totalWords = 0 /\ timePerWord = 0 /\ i = 0
  /\ segments = <<>>
  /\ wordsPerMinute \in Rates
  /\ estPc = "start"
  /\ estimate = Rat(0, 1)
  /\ PlayerIdle
  /\ RestIdle

NextEstimate == EstimateAudioDuration

SpecEstimate == InitEstimate /\ [][NextEstimate]_vars

\* both functions called on one text, as generateSpeechAndCaptions does
InitCounts ==
  /\ text \in Texts
  /\ totalDuration \in {0, MaxDur}
  /\ wordsPerSegment \in {1, MaxK}
  /\ pc = "start"
  /\ words = <<>> /\ totalWords = 0 /\ timePerWord = 0 /\ i = 0
  /\ segments = <<>>
  /\ wordsPerMinute = DefaultWordsPerMinute
  /\ estPc = "start"
  /\ estimate = Rat(0, 1)
  /\ PlayerIdle
  /\ RestIdle

NextCounts ==
  \/ EnterGenerateCaptions
  \/ ComputeTimePerWord
  \/ LoopStep
  \/ LoopExit
  \/ EstimateAudioDuration

SpecCounts == InitCounts /\ [][NextCounts]_vars

\* a mounted player
InitPlayer ==
  /\ CaptionsIdle
  /\ EstimateIdle
  /\ captions \in PlayerCaptions
  /\ audioTime = 0 /\ videoTime = 0 /\ currentTime = 0
  /\ currentCaption = <<>>
  /\ PlaybackIdle
  /\ RestIdle

NextPlayer ==
  \/ UpdateTime
  \/ VideoPlays
  \/ TogglePlayPause
  \/ HandleEnded

SpecPlayer == InitPlayer /\ [][NextPlayer]_vars

\* ----------------------------------------------------------- PDFToSpeechApp
\* the files a user can pick or drop: a MIME type and the text in the file
AppTexts == {<<>>, <<SP>>, <<"a">>, <<SP, "a", TAB>>, WordsJoined(2, <<SP>>),
             WordsJoined(8, <<NL>>)}
AppFiles == [pdf : BOOLEAN, content : AppTexts]

\* a duration in seconds on the player's clock of quarter seconds
ToPlayerTime(r) == (r.num * 2 * SyncThreshold) \div r.den

\* line 59: !text.trim()
IsEmptyTextNever(t) == FALSE

IsEmptyText(t) == Len(Trim(t)) = 0

Toast(u, title) == Append(toasts, [upload |-> u, title |-> title])

InFlight(u) == uploads[u].pc \in {"extracting", "synthesizing"}

\* lines 43-57: handleFileUpload up to its first await
HandleFileUpload(file, via) ==
  /\ Len(uploads) < MaxUploads
  /\ LET u == Len(uploads) + 1
         call == [via |-> via, pdf |-> file.pdf, content |-> file.content,
                  pc |-> "rejected", text |-> <<>>, extractCalls |-> 0,
                  synthCalls |-> 0, setVideo |-> FALSE]
     IN IF ~file.pdf
        THEN /\ toasts' = Toast(u, "Invalid file type")
             /\ uploads' = Append(uploads, call)
             /\ UNCHANGED isProcessing
        ELSE /\ isProcessing' = TRUE
             /\ uploads' = Append(uploads, [call EXCEPT !.pc = "extracting",
                                                        !.extractCalls = 1])
             /\ UNCHANGED toasts
  /\ UNCHANGED <<videoData, captionVars, estimateVars, playerVars,
                 playbackVars, chunkVars, ttsVars>>

\* lines 92-97, 151-160: a file chosen in the file input, which is rendered
\* while videoData is null and is disabled while isProcessing
HandleFileInput ==
  \E file \in AppFiles :
    /\ videoData = <<>>
    /\ ~isProcessing
    /\ HandleFileUpload(file, "input")

\* lines 109-116, 139-142: a file dropped on the drop zone, which is
\* rendered while videoData is null
HandleDrop ==
  \E file \in AppFiles :
    /\ videoData = <<>>
    /\ HandleFileUpload(file, "drop")

\* lines 57-67 and 87-89: extractTextFromPDF resolves (pdfExtractor.ts line
\* 25: with the trimmed text)
ExtractReturns(u) ==
  /\ uploads[u].pc = "extracting"
  /\ LET extracted == Trim(uploads[u].content)
     IN IF IsEmptyText(extracted)
        THEN /\ toasts' = Toast(u, "Empty PDF")
             /\ isProcessing' = FALSE
             /\ uploads' = [uploads EXCEPT ![u].pc = "empty",
                                           ![u].text = extracted]
        ELSE /\ uploads' = [uploads EXCEPT ![u].pc = "synthesizing",
                                           ![u].text = extracted,
                                           ![u].synthCalls = 1]
             /\ UNCHANGED <<toasts, isProcessing>>
  /\ UNCHANGED <<videoData, captionVars, estimateVars, playerVars,
                 playbackVars, chunkVars, ttsVars>>

\* lines 79-89, without the finally block
FailsNoFinally(u, at) ==
  /\ uploads[u].pc = at
  /\ toasts' = Toast(u, "Processing failed")
  /\ uploads' = [uploads EXCEPT ![u].pc = "failed"]
  /\ UNCHANGED <<isProcessing, videoData, captionVars, estimateVars,
                 playerVars, playbackVars, chunkVars, ttsVars>>

\* lines 79-89: the awaited promise rejects; catch, then finally
Fails(u, at) ==
  /\ uploads[u].pc = at
  /\ toasts' = Toast(u, "Processing failed")
  /\ isProcessing' = FALSE
  /\ uploads' = [uploads EXCEPT ![u].pc = "failed"]
  /\ UNCHANGED <<videoData, captionVars, estimateVars, playerVars,
                 playbackVars, chunkVars, ttsVars>>

\* pdfExtractor.ts lines 26-29: extraction throws
ExtractFails(u) == Fails(u, "extracting")

\* line 70: generateSpeechAndCaptions rejects
SynthesisFails(u) == Fails(u, "synthesizing")

\* lines 24-41 and 70-77, 87-89: generateSpeechAndCaptions resolves
SynthesisReturns(u) ==
  /\ uploads[u].pc = "synthesizing"
  /\ LET t == uploads[u].text
         estimatedDuration == EstimateAudioDurationOf(t, DefaultWordsPerMinute)
         caps == GenerateCaptions(t, ToPlayerTime(estimatedDuration),
                                  WordsPerCaption)
     IN videoData' = <<[audioUrl |-> u, captions |-> caps]>>
  /\ toasts' = Toast(u, "Video created successfully!")
  /\ isProcessing' = FALSE
  /\ uploads' = [uploads EXCEPT ![u].pc = "done", ![u].setVideo = TRUE]
  /\ UNCHANGED <<captionVars, estimateVars, playerVars, playbackVars,
                 chunkVars, ttsVars>>

\* lines 118-123: the player's "Create Another Video" button
ResetApp ==
  /\ videoData # <<>>
  /\ videoData' = <<>>
  /\ UNCHANGED <<isProcessing, toasts, uploads, captionVars, estimateVars,
                 playerVars, playbackVars, chunkVars, ttsVars>>

InitApp ==
  /\ CaptionsIdle
  /\ EstimateIdle
  /\ PlayerIdle
  /\ ChunksIdle
  /\ TtsIdle
  /\ AppIdle

NextApp ==
  \/ HandleFileInput
  \/ HandleDrop
  \/ \E u \in 1..Len(uploads) : ExtractReturns(u)
  \/ \E u \in 1..Len(uploads) : ExtractFails(u)
  \/ \E u \in 1..Len(uploads) : SynthesisReturns(u)
  \/ \E u \in 1..Len(uploads) : SynthesisFails(u)
  \/ ResetApp

SpecApp == InitApp /\ [][NextApp]_vars

\* ------------------------------------------------------ splitTextIntoChunks
Terminators == {".", "!", "?"}

\* line 94: text.split(/[.!?]+/): the pieces between runs of terminators,
\* the empty pieces at either end included
RECURSIVE SplitSentences(_, _)
SplitSentences(s, cur) ==
  IF s = <<>> THEN <<cur>>
  ELSE IF Head(s) \in Terminators
       THEN IF Len(s) >= 2 /\ s[2] \in Terminators
            THEN SplitSentences(Tail(s), cur)
            ELSE <<cur>> \o SplitSentences(Tail(s), <<>>)
       ELSE SplitSentences(Tail(s), Append(cur, Head(s)))

\* line 94: the sentences of the text
Sentences(t) == FilterNonBlank(SplitSentences(t, <<>>))

\* lines 98-109: the loop over the sentences from number n on
RECURSIVE ChunkLoop(_, _, _, _, _)
ChunkLoop(sentences, n, currentChunk, acc, max) ==
  IF n > Len(sentences) THEN [currentChunk |-> currentChunk, chunks |-> acc]
  ELSE LET trimmedSentence == Trim(sentences[n])
       IN IF Len(trimmedSentence) = 0
          THEN ChunkLoop(sentences, n + 1, currentChunk, acc, max)
          ELSE IF /\ Len(currentChunk) + Len(trimmedSentence) > max
                  /\ Len(currentChunk) > 0
               THEN ChunkLoop(sentences, n + 1, trimmedSentence \o <<".">>,
                              Append(acc, Trim(currentChunk)), max)
               ELSE ChunkLoop(sentences, n + 1,
                              currentChunk
                                \o (IF Len(currentChunk) > 0 THEN <<SP>>
                                    ELSE <<>>)
                                \o trimmedSentence \o <<".">>,
                              acc, max)

\* lines 93-117
SplitTextIntoChunksOf(t, max) ==
  LET after == ChunkLoop(Sentences(t), 1, <<>>, <<>>, max)
      all == IF Len(Trim(after.currentChunk)) > 0
             THEN Append(after.chunks, Trim(after.currentChunk))
             ELSE after.chunks
  IN IF Len(all) > 0 THEN all ELSE <<t>>

SplitTextIntoChunks ==
  /\ chunkPc = "start"
  /\ chunks' = SplitTextIntoChunksOf(chunkText, maxChunkLength)
  /\ chunkPc' = "done"
  /\ UNCHANGED <<chunkText, maxChunkLength, captionVars, estimateVars,
                 playerVars, playbackVars, ttsVars, appVars>>

ChunkAlphabet == {"a", SP, ".", "!"}
ChunkTexts == SeqsUpTo(ChunkAlphabet, MaxChunkText)

\* one call of splitTextIntoChunks
InitChunks ==
  /\ CaptionsIdle
  /\ EstimateIdle
  /\ PlayerIdle
  /\ chunkText \in ChunkTexts
  /\ maxChunkLength \in 1..MaxChunk
  /\ chunkPc = "start"
  /\ chunks = <<>>
  /\ TtsIdle
  /\ AppIdle

NextChunks == SplitTextIntoChunks

SpecChunks == InitChunks /\ [][NextChunks]_vars

\* ------------------------------------------------------ TextToSpeechService
\* the voice lists the browser can have
VoiceLists == {<<>>, <<"en-US">>, <<"en-US", "en-GB">>}

\* line 20: !TextToSpeechService.instance
NoInstanceAlways == TRUE

NoInstance == instance = 0

\* lines 28-32: loadVoicesHandler of the loadVoices call number k, run when
\* speechSynthesis.getVoices() returns list
LoadVoicesHandler(k, list) ==
  /\ voices' = list
  /\ isVoicesLoaded' = TRUE
  /\ resolved' = resolved \cup {k}
  /\ assignments' = assignments + 1

\* lines 38-41, without the fallback timeout
StartWaitingNoTimeout(k) ==
  /\ onvoiceschanged' = k
  /\ UNCHANGED timers

\* lines 38-41: register the handler, start the fallback timeout
StartWaiting(k) ==
  /\ onvoiceschanged' = k
  /\ timers' = timers \cup {k}

\* lines 26-44: loadVoices
LoadVoices ==
  LET k == loads + 1
  IN /\ loads' = k
     /\ IF Len(browserVoices) > 0
        THEN /\ LoadVoicesHandler(k, browserVoices)
             /\ UNCHANGED <<onvoiceschanged, timers>>
        ELSE /\ StartWaiting(k)
             /\ UNCHANGED <<voices, isVoicesLoaded, resolved, assignments>>

NoLoad ==
  UNCHANGED <<voices, isVoicesLoaded, resolved, assignments, onvoiceschanged,
              timers, loads>>

\* lines 15-24: getInstance, and the constructor when it runs
GetInstance ==
  /\ Len(returnedInstances) < MaxCalls
  /\ IF NoInstance
     THEN /\ constructions' = constructions + 1
          /\ instance' = constructions + 1
          /\ LoadVoices
     ELSE /\ UNCHANGED <<constructions, instance>>
          /\ NoLoad
  /\ returnedInstances' = Append(returnedInstances, instance')
  /\ UNCHANGED <<browserVoices, calls, events, captionVars, estimateVars,
                 playerVars, playbackVars, chunkVars, appVars>>

\* lines 46-51: getVoices up to its await, or to its return
GetVoices ==
  /\ instance # 0
  /\ Len(calls) < MaxCalls
  /\ IF ~isVoicesLoaded
     THEN /\ LoadVoices
          /\ calls' = Append(calls, [pc |-> "awaiting", load |-> loads + 1,
                                     loadedAtCall |-> FALSE,
                                     result |-> <<>>])
     ELSE /\ NoLoad
          /\ calls' = Append(calls, [pc |-> "returned", load |-> 0,
                                     loadedAtCall |-> TRUE,
                                     result |-> voices])
  /\ UNCHANGED <<instance, constructions, returnedInstances, browserVoices,
                 events, captionVars, estimateVars, playerVars, playbackVars,
                 chunkVars, appVars>>

\* lines 48-50: the awaited promise is resolved; return this.voices
GetVoicesResumes(c) ==
  /\ calls[c].pc = "awaiting"
  /\ calls[c].load \in resolved
  /\ calls' = [calls EXCEPT ![c].pc = "returned", ![c].result = voices]
  /\ UNCHANGED <<instance, constructions, returnedInstances, browserVoices,
                 voices, isVoicesLoaded, onvoiceschanged, timers, loads,
                 resolved, assignments, events, captionVars, estimateVars,
                 playerVars, playbackVars, chunkVars, appVars>>

\* line 39: the browser's voice list changes and it fires voiceschanged
VoicesChanged ==
  \E list \in VoiceLists :
    /\ events < MaxEvents
    /\ events' = events + 1
    /\ browserVoices' = list
    /\ IF onvoiceschanged # 0
       THEN LoadVoicesHandler(onvoiceschanged, list)
       ELSE UNCHANGED <<voices, isVoicesLoaded, resolved, assignments>>
    /\ UNCHANGED <<instance, constructions, returnedInstances,
                   onvoiceschanged, timers, loads, calls, captionVars,
                   estimateVars, playerVars, playbackVars, chunkVars, appVars>>

\* line 41: the fallback timeout of the loadVoices call number k expires
TimerFires(k) ==
  /\ k \in timers
  /\ timers' = timers \ {k}
  /\ LoadVoicesHandler(k, browserVoices)
  /\ UNCHANGED <<instance, constructions, returnedInstances, browserVoices,
                 onvoiceschanged, loads, calls, events, captionVars,
                 estimateVars, playerVars, playbackVars, chunkVars, appVars>>

InitTts ==
  /\ CaptionsIdle
  /\ EstimateIdle
  /\ PlayerIdle
  /\ ChunksIdle
  /\ instance = 0 /\ constructions = 0 /\ returnedInstances = <<>>
  /\ browserVoices \in VoiceLists
  /\ voices = <<>> /\ isVoicesLoaded = FALSE
  /\ onvoiceschanged = 0 /\ timers = {} /\ loads = 0 /\ resolved = {}
  /\ assignments = 0 /\ calls = <<>> /\ events = 0
  /\ AppIdle

NextTts ==
  \/ GetInstance
  \/ GetVoices
  \/ \E c \in 1..Len(calls) : GetVoicesResumes(c)
  \/ VoicesChanged
  \/ \E k \in timers : TimerFires(k)

SpecTts == InitTts /\ [][NextTts]_vars

\* a timeout that is pending expires, and a promise continuation whose
\* promise is resolved runs; nothing makes voiceschanged fire
FairTts ==
  /\ WF_vars(\E k \in timers : TimerFires(k))
  /\ WF_vars(\E c \in 1..Len(calls) : GetVoicesResumes(c))

SpecTtsFair == SpecTts /\ FairTts

\* ------------------------------------------------- what the claims speak of
\* the words of a text: its maximal runs of non-whitespace characters
RECURSIVE WordRuns(_, _)
WordRuns(s, cur) ==
  IF s = <<>> THEN (IF cur = <<>> THEN <<>> ELSE <<cur>>)
  ELSE IF IsSpace(Head(s))
       THEN (IF cur = <<>> THEN <<>> ELSE <<cur>>) \o WordRuns(Tail(s), <<>>)
       ELSE WordRuns(Tail(s), Append(cur, Head(s)))

WordsOf(t) == WordRuns(t, <<>>)
WordCount == Len(WordsOf(text))
IsBlank(t) == \A p \in 1..Len(t) : IsSpace(t[p])
CeilDiv(a, b) == (a + b - 1) \div b
Returned == pc = "done"

RECURSIVE SegmentTexts(_)
SegmentTexts(segs) ==
  IF segs = <<>> THEN <<>> ELSE <<Head(segs).text>> \o SegmentTexts(Tail(segs))

\* some step of the call can be taken: the call is not stopped short of its
\* return by the cap on iterations
CanStep ==
  \/ pc \in {"start", "divide"}
  \/ pc = "loop" /\ (i < Len(words) => Len(segments) < MaxSegments)

\* C1: for a text of W >= 1 words, totalDuration > 0 and wordsPerSegment
\* k >= 1, generateCaptions terminates (the loop never runs more than
\* ceil(W / k) times and the call is never stuck before it returns) and
\* returns exactly ceil(W / k) segments.
C1_SegmentCount ==
  (WordCount >= 1 /\ totalDuration > 0 /\ wordsPerSegment >= 1) =>
    /\ Len(segments) <= CeilDiv(WordCount, wordsPerSegment)
    /\ Returned => Len(segments) = CeilDiv(WordCount, wordsPerSegment)
    /\ ~Returned => CanStep

C1_Witness ==
  /\ Returned
  /\ WordCount = 5 /\ wordsPerSegment = 2 /\ totalDuration > 0
  /\ Len(segments) = 3

\* C2: for empty or whitespace-only text generateCaptions returns [] for
\* every totalDuration and wordsPerSegment, and the division of
\* totalDuration by the word count is reached only with a word count >= 1.
C2_EmptyText ==
  /\ IsBlank(text) => (pc \in {"start", "done"} /\ segments = <<>>)
  /\ pc = "divide" => Len(words) >= 1
  /\ pc = "loop" => totalWords >= 1

C2_Witness ==
  /\ Returned /\ segments = <<>>
  /\ IsBlank(text) /\ Len(text) >= 2
  /\ wordsPerSegment <= 0 /\ totalDuration = 0

\* C3: for any text and wordsPerSegment >= 1, the segments' texts joined
\* with single spaces, in output order, are the words of the input joined
\* with single spaces: same words, same order, none lost or duplicated.
C3_RoundTrip ==
  (Returned /\ wordsPerSegment >= 1) =>
    /\ JoinSpace(SegmentTexts(segments)) = JoinSpace(WordsOf(text))
    /\ WordsOf(JoinSpace(SegmentTexts(segments))) = WordsOf(text)

C3_Witness ==
  /\ Returned /\ wordsPerSegment = 2 /\ Len(segments) = 2
  /\ WordCount = 3
  /\ JoinSpace(WordsOf(text)) # text
  /\ \E p, q \in 1..WordCount : WordsOf(text)[p] # WordsOf(text)[q]

\* C4: with totalDuration >= 0 and wordsPerSegment >= 1 the segments' start
\* values are non-decreasing in output order and every segment has
\* end >= start.
C4_Ordered ==
  (totalDuration >= 0 /\ wordsPerSegment >= 1) =>
    \A j \in 1..Len(segments) :
      /\ segments[j].end >= segments[j].start
      /\ j > 1 => segments[j - 1].start <= segments[j].start

\* C5: for non-empty text, totalDuration >= 0 and wordsPerSegment >= 1 no
\* segment's end, the last one's in particular, exceeds totalDuration.
C5_EndClamped ==
  (WordCount >= 1 /\ totalDuration >= 0 /\ wordsPerSegment >= 1) =>
    \A j \in 1..Len(segments) : segments[j].end <= totalDuration

\* the clamp has acted: the last boundary as computed lies past totalDuration
C5_Witness ==
  /\ Returned /\ wordsPerSegment >= 1 /\ totalDuration > 0
  /\ Len(segments) >= 2
  /\ totalWords * timePerWord > totalDuration
  /\ segments[Len(segments)].end = totalDuration

\* no operation of the call rounds: the quotient totalDuration / W is exact
ExactArithmetic == WordCount >= 1 /\ totalDuration % WordCount = 0

\* C6: in exact arithmetic, for non-empty text, totalDuration > 0 and
\* wordsPerSegment >= 1, the returned segments tile [0, totalDuration]: the
\* first starts at 0, each one's end is the next one's start, and the last
\* one's end is totalDuration.
C6_Tiling ==
  (Returned /\ ExactArithmetic /\ totalDuration > 0 /\ wordsPerSegment >= 1) =>
    /\ Len(segments) >= 1
    /\ segments[1].start = 0
    /\ \A j \in 1..(Len(segments) - 1) : segments[j].end = segments[j + 1].start
    /\ segments[Len(segments)].end = totalDuration

C6_Witness ==
  /\ Returned /\ ExactArithmetic /\ totalDuration > 0
  /\ wordsPerSegment = 2 /\ Len(segments) = 3
  /\ segments[2].end < totalDuration

\* C7: with group size k >= 1 the j-th segment (0-based) covers the words
\* [j*k, min((j+1)*k, W)): every segment but the last has k words, the last
\* between 1 and k; its start is j*k*(totalDuration/W) and its end is
\* min((j*k+g)*(totalDuration/W), totalDuration), g its word count, each
\* boundary a function of the word index alone.
C7_Windows ==
  (wordsPerSegment >= 1) =>
    \A n \in 1..Len(segments) :
      LET j == n - 1
          k == wordsPerSegment
          W == WordCount
          lo == j * k
          hi == Min((j + 1) * k, W)
          g == hi - lo
          last == CeilDiv(W, k)
      IN /\ n <= last
         /\ 1 <= g /\ g <= k
         /\ n < last => g = k
         /\ segments[n].text = JoinSpace(SubSeq(WordsOf(text), lo + 1, hi))
         /\ segments[n].start = j * k * FDiv(totalDuration, W)
         /\ segments[n].end =
              Min((j * k + g) * FDiv(totalDuration, W), totalDuration)

\* a short last window whose end is not clamped
C7_Witness ==
  /\ Returned /\ wordsPerSegment = 2 /\ WordCount = 5
  /\ Len(segments) = 3
  /\ segments[3].end < totalDuration
  /\ segments[3].start > 0

\* C9: called with wordsPerSegment <= 0 or totalDuration < 0,
\* generateCaptions fails fast: it produces no segment timings.
C9_FailsFast ==
  (wordsPerSegment <= 0 \/ totalDuration < 0) => segments = <<>>

\* the starts of the pieces between literal spaces, and the count of those
\* pieces that hold a character that is not whitespace
TokenStarts(t) == {p \in 1..(Len(t) + 1) : p = 1 \/ t[p - 1] = SP}

NonBlankTokenCount(t) ==
  Cardinality({p \in TokenStarts(t) :
                 \E q \in p..Len(t) :
                   /\ ~IsSpace(t[q])
                   /\ \A r \in p..q : t[r] # SP})

\* C8: estimateAudioDuration(text, wpm) returns max(wordCount / wpm * 60, 10),
\* wordCount the number of non-blank tokens between literal spaces; the
\* result is never below 10 seconds, it is 10 for three words at 150 wpm and
\* 120 for 300 words at 150 wpm.
C8_Estimate ==
  estPc = "done" =>
    LET c == NonBlankTokenCount(text)
    IN /\ estimate.den > 0
       /\ estimate.num * wordsPerMinute
            = estimate.den * Max(c * 60, 10 * wordsPerMinute)
       /\ estimate.num >= 10 * estimate.den
       /\ (text = ThreeWords /\ wordsPerMinute = 150)
            => estimate = [num |-> 10, den |-> 1]
       /\ (text = ThreeHundredWords /\ wordsPerMinute = 150)
            => estimate = [num |-> 120, den |-> 1]

C8_Witness ==
  /\ estPc = "done"
  /\ text = ThreeHundredWords /\ wordsPerMinute = 150
  /\ NonBlankTokenCount(text) = 300
  /\ estimate = [num |-> 120, den |-> 1]

\* the text of the first segment, in sequence order, with start <= t <= end;
\* the placeholder when there is none
FirstMatch(caps, t) ==
  LET M == {n \in 1..Len(caps) : caps[n].start <= t /\ t <= caps[n].end}
  IN IF M = {} THEN Placeholder
     ELSE caps[CHOOSE n \in M : \A m \in M : n <= m].text

\* C10: on every audio timeupdate at playback time t the renderer displays
\* the text of the first segment in sequence order with start <= t <= end (at
\* a boundary two segments share, the earlier one), and the placeholder when
\* no segment matches.
C10_CaptionShown ==
  [][UpdateTime => Displayed' = FirstMatch(captions, audioTime')]_vars

\* the renderer has run at a boundary two segments share
C10_Witness ==
  \E n \in 1..(Len(captions) - 1) :
    /\ captions[n].end = audioTime /\ captions[n + 1].start = audioTime
    /\ currentTime = audioTime
    /\ captions[n].text # captions[n + 1].text
    /\ Displayed = captions[n].text

\* the part of a text from its first to its last non-whitespace character
Core(t) ==
  LET P == {p \in 1..Len(t) : ~IsSpace(t[p])}
  IN IF P = {} THEN <<>>
     ELSE SubSeq(t, CHOOSE p \in P : \A q \in P : p <= q,
                    CHOOSE p \in P : \A q \in P : p >= q)

HasChar(t, C) == \E p \in 1..Len(t) : t[p] \in C

\* C15: on one text the estimator's word count (split on literal spaces,
\* blank tokens dropped) never exceeds the allocator's (split after collapsing
\* all whitespace); they are equal when the text's only whitespace is the
\* space character, and differ when its words are separated only by tabs or
\* newlines.
C15_WordCounts ==
  (pc # "start" /\ estPc = "done") =>
    LET est == Len(EstimateWords(text))
        alloc == Len(words)
    IN /\ est <= alloc
       /\ ~HasChar(text, {TAB, NL}) => est = alloc
       /\ (alloc >= 2 /\ ~HasChar(Core(text), {SP})) => est < alloc

\* two words parted by a tab alone: one token for the estimator
C15_Witness ==
  /\ pc = "done" /\ estPc = "done"
  /\ Len(words) = 2
  /\ Len(EstimateWords(text)) = 1
  /\ HasChar(Core(text), {TAB}) /\ ~HasChar(Core(text), {SP})

\* the upload that takes a step from an awaited call to failure
Failing(u) == InFlight(u) /\ uploads'[u].pc = "failed"

ErrorToasts(ts, u) ==
  Cardinality({n \in 1..Len(ts) :
                 ts[n] = [upload |-> u, title |-> "Processing failed"]})

\* C11: when extraction or synthesis fails in handleFileUpload, the failure
\* is reported by exactly one error notification, the upload is over (no
\* further extraction or synthesis call, its record never changes again),
\* videoData is left as it was and isProcessing is set back to false.
C11_FailureReported ==
  [][\A u \in 1..Len(uploads) :
       /\ Failing(u) =>
            /\ toasts' = Toast(u, "Processing failed")
            /\ videoData' = videoData
            /\ isProcessing' = FALSE
            /\ uploads'[u].extractCalls = 1
            /\ uploads'[u].synthCalls = uploads[u].synthCalls
            /\ ~uploads'[u].setVideo
       /\ uploads[u].pc = "failed" =>
            /\ uploads'[u] = uploads[u]
            /\ ErrorToasts(toasts', u) = 1]_vars

\* a synthesis failure and an extraction failure, each reported once
C11_Witness ==
  /\ ~isProcessing
  /\ \E u, v \in 1..Len(uploads) :
       /\ uploads[u].pc = "failed" /\ uploads[u].synthCalls = 1
       /\ uploads[v].pc = "failed" /\ uploads[v].synthCalls = 0
       /\ ErrorToasts(toasts, u) = 1 /\ ErrorToasts(toasts, v) = 1

\* C12: every chunk splitTextIntoChunks returns has at most maxChunkLength
\* characters, for every text and every maxChunkLength >= 1.
C12_ChunkLength ==
  (chunkPc = "done" /\ maxChunkLength >= 1) =>
    \A n \in 1..Len(chunks) : Len(chunks[n]) <= maxChunkLength

\* C13: TextToSpeechService is a singleton: the constructor runs at most
\* once, and every getInstance call returns the same instance.
C13_Singleton ==
  /\ constructions <= 1
  /\ \A n \in 1..Len(returnedInstances) :
       returnedInstances[n] = instance /\ returnedInstances[n] = 1

C13_Witness ==
  /\ constructions = 1
  /\ Len(returnedInstances) = 2
  /\ returnedInstances[1] = returnedInstances[2]

\* C14: the voices are loaded once and cached: over any interleaving of
\* getVoices calls, voiceschanged events and the fallback timeout, this.voices
\* is assigned from speechSynthesis.getVoices() at most once, and a getVoices
\* call made once the voices are loaded returns the cached list without
\* starting another load.
C14_LoadedOnce ==
  /\ assignments <= 1
  /\ \A c \in 1..Len(calls) :
       calls[c].loadedAtCall => calls[c].pc = "returned" /\ calls[c].load = 0

\* C18: a getVoices call that waits for the voices returns in the end, the
\* voiceschanged event firing or not, and isVoicesLoaded, once true, is
\* never false again.
C18_Resolves ==
  /\ \A c \in 1..MaxCalls :
       (Len(calls) >= c /\ calls[c].pc = "awaiting")
         ~> (Len(calls) >= c /\ calls[c].pc = "returned")
  /\ [][isVoicesLoaded => isVoicesLoaded']_vars

\* a call that waited has returned though voiceschanged never fired
C18_Witness ==
  /\ events = 0
  /\ isVoicesLoaded
  /\ \E c \in 1..Len(calls) :
       calls[c].pc = "returned" /\ ~calls[c].loadedAtCall

\* C16: isProcessing is true in every state in which some handleFileUpload
\* invocation has passed the file-type check and has not finished, whatever
\* the interleaving of file-input selections, drops and completions.
C16_ProcessingWhileInFlight ==
  (\E u \in 1..Len(uploads) : InFlight(u)) => isProcessing

\* C17: while videoData is non-null its captions hold at least one segment;
\* videoData is set only by an upload of a PDF whose extracted text is not
\* empty after trimming and whose synthesis and caption generation (with the
\* estimated duration, at least 10 s, and 6 words per segment) succeeded; an
\* upload of a non-PDF or of an empty PDF never sets it.
C17_VideoData ==
  /\ videoData # <<>> =>
       LET u == videoData[1].audioUrl
       IN /\ Len(videoData[1].captions) >= 1
          /\ uploads[u].setVideo
          /\ videoData[1].captions =
               GenerateCaptions(uploads[u].text,
                                ToPlayerTime(Rat(MinimumDuration, 1)),
                                WordsPerCaption)
  /\ \A u \in 1..Len(uploads) :
       uploads[u].setVideo =>
         /\ uploads[u].pdf
         /\ ~IsBlank(uploads[u].content)
         /\ uploads[u].text = Trim(uploads[u].content)
         /\ uploads[u].pc = "done"
         /\ uploads[u].extractCalls = 1 /\ uploads[u].synthCalls = 1

\* a video of two segments is shown, after another upload was an empty PDF
C17_Witness ==
  /\ videoData # <<>>
  /\ Len(videoData[1].captions) = 2
  /\ \E u \in 1..Len(uploads) : uploads[u].pc = "empty"

\* C19: after any sequence of togglePlayPause clicks and 'ended' events,
\* isPlaying is true exactly when the audio is playing, and the background
\* video is playing exactly when the audio is playing; after the audio has
\* ended both are paused.
C19_PlaybackInSync ==
  /\ isPlaying <=> audioPlaying
  /\ videoPlaying <=> audioPlaying
  /\ lastEvent = "ended" => ~audioPlaying /\ ~videoPlaying /\ ~isPlaying

\* the audio has played to its end, some way into the captions
C19_Witness ==
  /\ lastEvent = "ended"
  /\ ~isPlaying /\ ~videoPlaying /\ ~audioPlaying
  /\ audioTime > 0

====
